---- MODULE Spec2Model ----
(***************************************************************************)
(* IFFK planner: the programme registry (programme_manager.py) and the     *)
(* Streamlit views that drive it (app.py), over a workbook of three        *)
(* sheets.                                                                 *)
(*                                                                         *)
(* A sheet is a grid of rows; row 1 is the header, every cell holds the    *)
(* text the sheet service shows for it ("" for an empty cell).  Python     *)
(* values are tagged records: [int |-> n], [str |-> s], [bool |-> b],      *)
(* [f60 |-> k] (the float k/60: every mean of up to five integers is an    *)
(* exact number of sixtieths) and [nan |-> TRUE] (pandas' missing value).  *)
(***************************************************************************)
EXTENDS Integers, Sequences, FiniteSets, TLC

VARIABLES
    sheets,   \* the workbook: sheet name -> grid
    cache,    \* st.cache_data store of load_data_with_cache: sheet name -> entry
    page,     \* what the last script run rendered
    call      \* the last call of a pure registry function (argument/result)

vars == <<sheets, cache, page, call>>

----------------------------------------------------------------------------
(* Bounds of the model *)

\* catalog rows (Films + Talks) the add-entry operations may create
MaxRows == 2
\* decimal places kept when a float is written as text
FloatDigits == 6
\* rows of the argument sheet of a generate_sl_no call
MaxSlRows == 3
\* largest serial number passed to a generate_programme_id call
MaxSlNo == 12

----------------------------------------------------------------------------
(* Configuration: sheet names and the category -> code table *)

FILMS_LIST_SHEET == "Films"
TALKS_SHEET == "Talks & Conversations"
PROGRAMME_SELECTION_SHEET == "Programme Selection"

SheetNames == {FILMS_LIST_SHEET, TALKS_SHEET, PROGRAMME_SELECTION_SHEET}

\* resources/category_codes.json as loaded by __init__
CATEGORY_CODES ==
    ("Feature Film" :> "F") @@ ("World Cinema" :> "W") @@
    ("Talks & Conversations" :> "T")

\* category strings outside the table
UnknownCategories == {"Jury Films", "Homage"}

FilmsHeader ==
    <<"CATEGORY", "SL_NO", "PROGRAMME_ID", "INTERNATIONAL_TITLE",
      "ORIGINAL_TITLE", "YEAR", "RUNNING_TIME", "LANGUAGE", "COUNTRY",
      "DIRECTOR", "SYNOPSIS", "IMAGE_URL", "LETTERBOXD_URL">>

TalksHeader ==
    <<"CATEGORY", "SL_NO", "PROGRAMME_ID", "TOPIC", "DURATION", "IMAGE_URL">>

SelectionHeader ==
    <<"PROGRAMME_ID", "SYNOPSIS", "TRAILER", "DIRECTOR_PROFILE",
      "WRITER_PROFILE", "LETTERBOXD_REVIEWS", "AVERAGE_SCORE", "IS_SELECTED">>

----------------------------------------------------------------------------
(* Python values and their text *)

PyInt(n) == [int |-> n]
PyStr(s) == [str |-> s]
PyBool(b) == [bool |-> b]
PyFloat(k) == [f60 |-> k]
NaN == [nan |-> TRUE]

IsInt(v) == "int" \in DOMAIN v
IsStr(v) == "str" \in DOMAIN v
IsBool(v) == "bool" \in DOMAIN v
IsFloat(v) == "f60" \in DOMAIN v
IsNaN(v) == "nan" \in DOMAIN v

\* the value of a number in sixtieths (5 == 5.0 in Python)
Num60(v) == IF IsInt(v) THEN v.int * 60 ELSE v.f60

Digits == "0123456789"

CharAt(s, i) == SubSeq(s, i, i)

DigitChars == {CharAt(Digits, d) : d \in 1..10}

IsDigit(c) == c \in DigitChars

DigitVal(c) == (CHOOSE d \in 1..10 : CharAt(Digits, d) = c) - 1

AllDigits(s) == Len(s) > 0 /\ \A i \in 1..Len(s) : IsDigit(CharAt(s, i))

\* str(n) for an int n >= 0
RECURSIVE Str(_)
Str(n) ==
    IF n < 10 THEN CharAt(Digits, n + 1)
    ELSE Str(n \div 10) \o CharAt(Digits, (n % 10) + 1)

\* int(s) for a string of digits
RECURSIVE ParseInt(_)
ParseInt(s) ==
    IF Len(s) = 0 THEN 0
    ELSE ParseInt(SubSeq(s, 1, Len(s) - 1)) * 10 + DigitVal(CharAt(s, Len(s)))

RECURSIVE Pow10(_)
Pow10(n) == IF n = 0 THEN 1 ELSE 10 * Pow10(n - 1)

\* the first n decimals of r/60, by long division
RECURSIVE FracDigits(_, _)
FracDigits(r, n) ==
    IF n = 0 THEN ""
    ELSE CharAt(Digits, ((r * 10) \div 60) + 1) \o FracDigits((r * 10) % 60, n - 1)

RECURSIVE StripZeros(_)
StripZeros(s) ==
    IF Len(s) > 1 /\ CharAt(s, Len(s)) = "0"
    THEN StripZeros(SubSeq(s, 1, Len(s) - 1))
    ELSE s

\* str(x) for a float x = k/60 >= 0
FloatText(k) ==
    Str(k \div 60) \o "." \o StripZeros(FracDigits(k % 60, FloatDigits))

DotAt(s) == {i \in 2..(Len(s) - 1) : CharAt(s, i) = "."}

IsFloatText(s) ==
    /\ Len(s) >= 3
    /\ IsDigit(CharAt(s, 1))
    /\ \E i \in DotAt(s) :
            AllDigits(SubSeq(s, 1, i - 1)) /\ AllDigits(SubSeq(s, i + 1, Len(s)))

\* float(s), to the nearest sixtieth
ParseFloat60(s) ==
    LET i == CHOOSE j \in DotAt(s) : TRUE
        frac == SubSeq(s, i + 1, Len(s))
        p == Pow10(Len(frac))
    IN  ParseInt(SubSeq(s, 1, i - 1)) * 60
        + ((ParseInt(frac) * 120 + p) \div (2 * p))

\* str(v), as df.astype(str) applies it to every cell
PyToStr(v) ==
    IF IsInt(v) THEN Str(v.int)
    ELSE IF IsBool(v) THEN (IF v.bool THEN "True" ELSE "False")
    ELSE IF IsFloat(v) THEN FloatText(v.f60)
    ELSE IF IsNaN(v) THEN "nan"
    ELSE v.str

\* Python's < on strings: by code point, a proper prefix first
CodePoints == "0123456789ABCDEFGHIJKLMNOPQRSTUVWXYZ"

Ord(c) == CHOOSE i \in 1..Len(CodePoints) : CharAt(CodePoints, i) = c

RECURSIVE StrLess(_, _)
StrLess(a, b) ==
    IF Len(b) = 0 THEN FALSE
    ELSE IF Len(a) = 0 THEN TRUE
    ELSE IF Head(a) = Head(b) THEN StrLess(Tail(a), Tail(b))
    ELSE Ord(Head(a)) < Ord(Head(b))

----------------------------------------------------------------------------
(* The sheet service *)

\* the text a cell shows after a RAW write of a Python value
RawCell(v) == IF IsInt(v) THEN Str(v.int) ELSE v.str

\* the text a cell shows after a USER_ENTERED write of a string
UserEntered(text) ==
    IF text \in {"True", "TRUE", "true"} THEN "TRUE"
    ELSE IF text \in {"False", "FALSE", "false"} THEN "FALSE"
    ELSE IF AllDigits(text) THEN Str(ParseInt(text))
    ELSE IF IsFloatText(text)
         THEN LET k == ParseFloat60(text)
              IN  IF k % 60 = 0 THEN Str(k \div 60) ELSE FloatText(k)
    ELSE text

\* gspread's numericise of a cell text
Numericise(text) ==
    IF AllDigits(text) THEN PyInt(ParseInt(text))
    ELSE IF IsFloatText(text) THEN PyFloat(ParseFloat60(text))
    ELSE PyStr(text)

IsBlankRow(row) == \A i \in 1..Len(row) : row[i] = ""

\* a grid ends at its last row that holds data (the header always stays)
TrimGrid(grid) ==
    LET used == {1} \cup {r \in 1..Len(grid) : ~IsBlankRow(grid[r])}
        last == CHOOSE r \in used : \A q \in used : q <= r
    IN  SubSeq(grid, 1, last)

ColumnOf(header, name) == CHOOSE i \in 1..Len(header) : header[i] = name

\* worksheet.get_all_records(): one dict per data row, keyed by the header
get_all_records(grid) ==
    LET keys == {grid[1][i] : i \in 1..Len(grid[1])}
        column == [h \in keys |-> ColumnOf(grid[1], h)]
    IN  [r \in 1..(Len(grid) - 1) |->
            [h \in keys |-> Numericise(grid[r + 1][column[h]])]]

\* a row appended only when no row of the sheet carries its third value
append_row_if_new_id(grid, row) ==
    IF \E r \in 2..Len(grid) : grid[r][3] = row[3].str
    THEN grid
    ELSE Append(grid, [i \in 1..Len(row) |-> IF IsInt(row[i]) THEN Str(row[i].int)
                                              ELSE row[i].str])

\* worksheet.append_row(row): the values go below the last row of data
append_row(grid, row) ==
    Append(grid, [i \in 1..Len(row) |-> RawCell(row[i])])

\* last sheet row covered by the range batch_clear is given ("A2:Z1000")
ClearLastRow == 1000

\* a clear of the range "A2:Z2"
batch_clear_first_row(grid) ==
    TrimGrid([r \in 1..Len(grid) |->
        IF r = 2 THEN [i \in 1..Len(grid[r]) |-> ""] ELSE grid[r]])

\* worksheet.batch_clear(["A2:Z1000"])
batch_clear(grid) ==
    TrimGrid([r \in 1..Len(grid) |->
        IF r >= 2 /\ r <= ClearLastRow
        THEN [i \in 1..Len(grid[r]) |-> ""]
        ELSE grid[r]])

\* worksheet.append_rows(rows, value_input_option="USER_ENTERED")
append_rows(grid, rows) ==
    TrimGrid(grid \o [r \in 1..Len(rows) |->
        [i \in 1..Len(rows[r]) |-> UserEntered(rows[r][i])]])

----------------------------------------------------------------------------
(* programme_manager.py: the programme registry *)

\* a serial number counted over the rows of every category
generate_sl_no_all_rows(grid, category) ==
    Len(get_all_records(grid)) + 1

\* a serial number taken from the sheet's last row
generate_sl_no_last_row(grid, category) ==
    LET data == get_all_records(grid)
    IN  IF Len(data) = 0 THEN 1 ELSE data[Len(data)]["SL_NO"].int + 1

\* generate_sl_no(sheet, category): rows of the category, plus one
generate_sl_no(grid, category) ==
    LET data == get_all_records(grid)
        same_category_rows ==
            {r \in 1..Len(data) :
                /\ "CATEGORY" \in DOMAIN data[r]
                /\ data[r]["CATEGORY"] = PyStr(category)}
    IN  Cardinality(same_category_rows) + 1

\* s.zfill(w)
RECURSIVE ZFill(_, _)
ZFill(s, w) == IF Len(s) >= w THEN s ELSE ZFill("0" \o s, w)

\* an id padded to two digits
generate_programme_id_zfill2(category, sl_no) ==
    LET code == IF category \in DOMAIN CATEGORY_CODES
                THEN CATEGORY_CODES[category] ELSE "X"
    IN  code \o ZFill(Str(sl_no), 2)

\* generate_programme_id(category, sl_no)
generate_programme_id(category, sl_no) ==
    LET code == IF category \in DOMAIN CATEGORY_CODES
                THEN CATEGORY_CODES[category] ELSE "X"
    IN  code \o ZFill(Str(sl_no), 3)

TalkKeys == <<"topic", "duration", "image_url">>

FilmKeys ==
    <<"international_title", "original_title", "year", "runtime", "language",
      "country", "director", "synopsis", "image_url", "letterboxd_url">>

\* how the sheet service answers the requests of one call: whether the read
\* (get_sheet, get_all_records) and the append succeed
IoOutcomes == [read_ok : BOOLEAN, append_ok : BOOLEAN]

IoOk == [read_ok |-> TRUE, append_ok |-> TRUE]

\* a failure of the append is logged and the id returned all the same
add_programme_entry_swallowing(data, book, io) ==
    IF "category" \notin DOMAIN data
    THEN [raised |-> TRUE, value |-> "KeyError", sheets |-> book]
    ELSE IF ~io.read_ok
    THEN [raised |-> TRUE, value |-> "APIError", sheets |-> book]
    ELSE
    LET category == data["category"].str
        sheet_name == IF category = "Talks & Conversations"
                      THEN TALKS_SHEET ELSE FILMS_LIST_SHEET
        sl_no == generate_sl_no(book[sheet_name], category)
        programme_id == generate_programme_id(category, sl_no)
        keys == IF category = "Talks & Conversations" THEN TalkKeys ELSE FilmKeys
        row == <<PyStr(category), PyInt(sl_no), PyStr(programme_id)>>
               \o [i \in 1..Len(keys) |-> data[keys[i]]]
    IN  IF \E i \in 1..Len(keys) : keys[i] \notin DOMAIN data
        THEN [raised |-> TRUE, value |-> "KeyError", sheets |-> book]
        ELSE IF ~io.append_ok
        THEN [raised |-> FALSE, value |-> programme_id, sheets |-> book]
        ELSE [raised |-> FALSE, value |-> programme_id,
              sheets |-> [book EXCEPT ![sheet_name] = append_row(@, row)]]

\* add_programme_entry(data) on workbook book, the sheet service answering
\* as io says: what it returns or raises, and the workbook it leaves
add_programme_entry(data, book, io) ==
    IF "category" \notin DOMAIN data
    THEN [raised |-> TRUE, value |-> "KeyError", sheets |-> book]
    ELSE IF ~io.read_ok
    THEN [raised |-> TRUE, value |-> "APIError", sheets |-> book]
    ELSE
    LET category == data["category"].str
        sheet_name == IF category = "Talks & Conversations"
                      THEN TALKS_SHEET ELSE FILMS_LIST_SHEET
        sl_no == generate_sl_no(book[sheet_name], category)
        programme_id == generate_programme_id(category, sl_no)
        keys == IF category = "Talks & Conversations" THEN TalkKeys ELSE FilmKeys
        row == <<PyStr(category), PyInt(sl_no), PyStr(programme_id)>>
               \o [i \in 1..Len(keys) |-> data[keys[i]]]
    IN  IF \E i \in 1..Len(keys) : keys[i] \notin DOMAIN data
        THEN [raised |-> TRUE, value |-> "KeyError", sheets |-> book]
        ELSE IF ~io.append_ok
        THEN [raised |-> TRUE, value |-> "APIError", sheets |-> book]
        ELSE [raised |-> FALSE, value |-> programme_id,
              sheets |-> [book EXCEPT ![sheet_name] = append_row(@, row)]]

\* a pandas DataFrame: its column names and its rows (dicts)
EmptyDataFrame == [columns |-> <<>>, rows |-> <<>>]

DfEmpty(df) == Len(df.rows) = 0 \/ Len(df.columns) = 0

\* pd.DataFrame(sheet.get_all_records())
DataFrameOf(grid) ==
    IF Len(grid) <= 1 THEN EmptyDataFrame
    ELSE [columns |-> grid[1], rows |-> get_all_records(grid)]

\* df.astype(str).fillna("").values.tolist()
DfStrValues(df) ==
    [r \in 1..Len(df.rows) |->
        [i \in 1..Len(df.columns) |-> PyToStr(df.rows[r][df.columns[i]])]]

\* the rows written over the Films sheet, whatever sheet is named
replace_sheet_data_films(book, sheet_name, df) ==
    LET cleared == batch_clear(book[FILMS_LIST_SHEET])
    IN  IF DfEmpty(df)
        THEN [book EXCEPT ![FILMS_LIST_SHEET] = cleared]
        ELSE [book EXCEPT ![FILMS_LIST_SHEET] = append_rows(cleared, DfStrValues(df))]

\* replace_sheet_data(sheet_name, df) on workbook book
replace_sheet_data(book, sheet_name, df) ==
    LET cleared == batch_clear(book[sheet_name])
    IN  IF DfEmpty(df)
        THEN [book EXCEPT ![sheet_name] = cleared]
        ELSE [book EXCEPT ![sheet_name] = append_rows(cleared, DfStrValues(df))]

----------------------------------------------------------------------------
(* app.py: the cached loader and the prologue of every script run *)

NotCached == [loaded |-> FALSE]

\* load_data_with_cache(sheet_name): the sheet is read on the first call
\* only; st.cache_data returns the stored DataFrame ever after
load_data_with_cache(c, book, sheet_name) ==
    IF c[sheet_name].loaded THEN c
    ELSE [c EXCEPT ![sheet_name] =
            [loaded |-> TRUE, df |-> DataFrameOf(book[sheet_name])]]

\* films_df, talks_df: loaded at the top of every run
Prologue(c, book) ==
    load_data_with_cache(
        load_data_with_cache(c, book, FILMS_LIST_SHEET), book, TALKS_SHEET)

----------------------------------------------------------------------------
(* app.py: the Select Films view *)

\* the values a score selectbox offers
ScoreRange == 0..5

RECURSIVE SumSeq(_)
SumSeq(s) == IF Len(s) = 0 THEN 0 ELSE Head(s) + SumSeq(Tail(s))

Positive(s) == s > 0

\* a mean taken over all five scores
avg_score_all_scores(scores) ==
    PyFloat((SumSeq(scores) * 60) \div Len(scores))

\* avg_score: the mean of the scores above 0, or the int 0
avg_score(scores) ==
    LET valid_scores == SelectSeq(scores, Positive)
    IN  IF Len(valid_scores) > 0
        THEN PyFloat((SumSeq(valid_scores) * 60) \div Len(valid_scores))
        ELSE PyInt(0)

\* the film rows the "Select Film" box can yield: the first row of each
\* (category, title) pair
TempTitle(film) ==
    film["INTERNATIONAL_TITLE"].str \o " (" \o film["ORIGINAL_TITLE"].str \o ")"

\* row i is what its title yields: film = filtered[TEMP_TITLE == choice].iloc[0]
IsChoice(films_df, i) ==
    \A j \in 1..(i - 1) :
        \/ films_df.rows[j]["CATEGORY"] # films_df.rows[i]["CATEGORY"]
        \/ TempTitle(films_df.rows[j]) # TempTitle(films_df.rows[i])

new_entry(programme_id, scores, is_selected) ==
    [PROGRAMME_ID |-> programme_id,
     SYNOPSIS |-> PyInt(scores[1]),
     TRAILER |-> PyInt(scores[2]),
     DIRECTOR_PROFILE |-> PyInt(scores[3]),
     WRITER_PROFILE |-> PyInt(scores[4]),
     LETTERBOXD_REVIEWS |-> PyInt(scores[5]),
     AVERAGE_SCORE |-> avg_score(scores),
     IS_SELECTED |-> PyBool(is_selected)]

\* "Remove old entry and append new one"
Upsert(selection_df, entry) ==
    LET kept == IF DfEmpty(selection_df) THEN selection_df.rows
                ELSE SelectSeq(selection_df.rows,
                        LAMBDA r : r["PROGRAMME_ID"] # entry["PROGRAMME_ID"])
    IN  [columns |-> IF Len(selection_df.columns) = 0
                     THEN SelectionHeader ELSE selection_df.columns,
         rows |-> Append(kept, entry)]

----------------------------------------------------------------------------
(* app.py: the Scoring Overview view *)

\* the multiselect of the sidebar: "All", or one category
CategoryFilters ==
    {DOMAIN CATEGORY_CODES} \cup {{c} : c \in DOMAIN CATEGORY_CODES}

\* one row of films_df.merge(selection_df, on="PROGRAMME_ID", how="left"),
\* with the columns the view goes on to use
MergedRow(film, score) ==
    [CATEGORY |-> film["CATEGORY"],
     INTERNATIONAL_TITLE |-> film["INTERNATIONAL_TITLE"],
     ORIGINAL_TITLE |-> film["ORIGINAL_TITLE"],
     YEAR |-> film["YEAR"],
     RUNNING_TIME |-> film["RUNNING_TIME"],
     PROGRAMME_ID |-> film["PROGRAMME_ID"],
     AVERAGE_SCORE |-> score["AVERAGE_SCORE"],
     IS_SELECTED |-> score["IS_SELECTED"]]

NoScore == [AVERAGE_SCORE |-> NaN, IS_SELECTED |-> NaN]

\* the left merge: every film row, once per score row of its id, or once
\* with missing values
RECURSIVE Merge(_, _)
Merge(films, scores) ==
    IF Len(films) = 0 THEN <<>>
    ELSE LET film == Head(films)
             hits == SelectSeq(scores,
                        LAMBDA r : r["PROGRAMME_ID"] = film["PROGRAMME_ID"])
         IN  (IF Len(hits) = 0 THEN <<MergedRow(film, NoScore)>>
              ELSE [i \in 1..Len(hits) |-> MergedRow(film, hits[i])])
             \o Merge(Tail(films), scores)

\* sort_values(by, ascending)
SortKeys ==
    <<[by |-> "IS_SELECTED", ascending |-> FALSE],
      [by |-> "AVERAGE_SCORE", ascending |-> FALSE],
      [by |-> "YEAR", ascending |-> FALSE],
      [by |-> "RUNNING_TIME", ascending |-> TRUE],
      [by |-> "PROGRAMME_ID", ascending |-> TRUE]>>

ValueLess(a, b) ==
    IF IsStr(a) THEN StrLess(a.str, b.str) ELSE Num60(a) < Num60(b)

ValueEqual(a, b) ==
    IF IsStr(a) THEN a = b ELSE Num60(a) = Num60(b)

\* the order of two values of one sort column: -1 (a first), 0, 1 (b first);
\* a missing value goes last whichever way the column is sorted
CmpColumn(a, b, ascending) ==
    IF IsNaN(a) /\ IsNaN(b) THEN 0
    ELSE IF IsNaN(a) THEN 1
    ELSE IF IsNaN(b) THEN -1
    ELSE IF ValueEqual(a, b) THEN 0
    ELSE IF ValueLess(a, b) = ascending THEN -1
    ELSE 1

RECURSIVE CmpRows(_, _, _)
CmpRows(r1, r2, keys) ==
    IF Len(keys) = 0 THEN 0
    ELSE LET c == CmpColumn(r1[Head(keys).by], r2[Head(keys).by],
                            Head(keys).ascending)
         IN  IF c # 0 THEN c ELSE CmpRows(r1, r2, Tail(keys))

\* a stable sort: rows that compare equal keep their order
sort_values(rows, keys) ==
    LET n == Len(rows)
        Ahead(i) ==
            {j \in 1..n :
                \/ CmpRows(rows[j], rows[i], keys) < 0
                \/ (CmpRows(rows[j], rows[i], keys) = 0 /\ j < i)}
    IN  [p \in 1..n |->
            rows[CHOOSE i \in 1..n : Cardinality(Ahead(i)) = p - 1]]

\* merged_df of the view
merged_df(films_df, selection_df, selected_categories) ==
    LET filtered == SelectSeq(films_df.rows,
                        LAMBDA f : f["CATEGORY"].str \in selected_categories)
    IN  sort_values(Merge(filtered, selection_df.rows), SortKeys)

\* display_df: AVERAGE_SCORE.fillna(0), IS_SELECTED mapped to a bool
display_df(merged) ==
    [i \in 1..Len(merged) |->
        [Category |-> merged[i]["CATEGORY"],
         IntlTitle |-> merged[i]["INTERNATIONAL_TITLE"],
         OriginalTitle |-> merged[i]["ORIGINAL_TITLE"],
         Year |-> merged[i]["YEAR"],
         RunningTime |-> merged[i]["RUNNING_TIME"],
         AverageScore |-> IF IsNaN(merged[i]["AVERAGE_SCORE"]) THEN PyInt(0)
                          ELSE merged[i]["AVERAGE_SCORE"],
         Selected |-> PyBool(PyToStr(merged[i]["IS_SELECTED"])
                             \in {"TRUE", "True", "true"})]]

----------------------------------------------------------------------------
(* image_uploader.py *)

\* the responses of the image host: status code, success flag, data.url
Responses ==
    {[status_code |-> 200, success |-> TRUE, url |-> "https://i.ibb.co/p.jpg"],
     [status_code |-> 200, success |-> FALSE, url |-> ""],
     [status_code |-> 500, success |-> FALSE, url |-> ""]}

\* a _handle_response that looks at the status code alone
handle_response_status_only(response) ==
    IF response.status_code # 200 THEN [raised |-> TRUE, value |-> ""]
    ELSE [raised |-> FALSE, value |-> response.url]

\* _handle_response(response): the URL, or an exception
handle_response(response) ==
    IF response.status_code # 200 THEN [raised |-> TRUE, value |-> ""]
    ELSE IF ~response.success THEN [raised |-> TRUE, value |-> ""]
    ELSE [raised |-> FALSE, value |-> response.url]

----------------------------------------------------------------------------
(* Inputs *)

\* what the editor types into the film form: title, year, running time
FilmForms ==
    {[title |-> "Alpha", year |-> 2020, run_time |-> 120],
     [title |-> "Beta", year |-> 2022, run_time |-> 120],
     [title |-> "Gamma", year |-> 2022, run_time |-> 90]}

OneFilmForm == {[title |-> "Alpha", year |-> 2020, run_time |-> 120]}

TalkForms == {[topic |-> "Craft", duration |-> 60]}

FilmData(category, form, image_url) ==
    [category |-> PyStr(category),
     international_title |-> PyStr(form.title),
     original_title |-> PyStr(form.title),
     year |-> PyInt(form.year),
     runtime |-> PyInt(form.run_time),
     language |-> PyStr("Malayalam"),
     country |-> PyStr("India"),
     director |-> PyStr("Director"),
     synopsis |-> PyStr("Synopsis"),
     image_url |-> PyStr(image_url),
     letterboxd_url |-> PyStr("")]

TalkData(category, form, image_url) ==
    [category |-> PyStr(category),
     topic |-> PyStr(form.topic),
     duration |-> PyInt(form.duration),
     image_url |-> PyStr(image_url)]

PosterUrl == "https://i.ibb.co/p.jpg"

FilmCategories == DOMAIN CATEGORY_CODES \ {"Talks & Conversations"}

\* the data dicts a caller hands to add_programme_entry
ApiData ==
    {FilmData(c, f, PosterUrl) :
        c \in FilmCategories \cup UnknownCategories, f \in OneFilmForm}
    \cup {TalkData("Talks & Conversations", f, PosterUrl) : f \in TalkForms}

\* s without the key k
Without(s, k) == [x \in DOMAIN s \ {k} |-> s[x]]

\* data dicts that lack a required key
IncompleteData ==
    LET film == FilmData("Feature Film", CHOOSE f \in OneFilmForm : TRUE, PosterUrl)
        talk == TalkData("Talks & Conversations", CHOOSE f \in TalkForms : TRUE,
                         PosterUrl)
    IN  {Without(film, "category"), Without(film, "synopsis"),
         Without(film, "image_url"), Without(talk, "topic")}

\* what the editor enters in the Select Films view
ScoreForm(scores, is_selected) == [scores |-> scores, is_selected |-> is_selected]

ScoreForms ==
    {ScoreForm(<<0, 0, 0, 0, 0>>, FALSE), ScoreForm(<<0, 0, 0, 0, 0>>, TRUE),
     ScoreForm(<<3, 4, 0, 0, 0>>, FALSE)}

TwoScoreForms ==
    {ScoreForm(<<0, 0, 0, 0, 5>>, FALSE), ScoreForm(<<3, 4, 0, 0, 0>>, TRUE)}

\* the film rows the editor picks among: the first MaxPick and the last
MaxPick == 1

Picks(films_df) ==
    {i \in 1..Len(films_df.rows) : i <= MaxPick \/ i = Len(films_df.rows)}

\* score sheets beyond the cleared range by more than this are not saved over
MaxOverflow == 1

----------------------------------------------------------------------------
(* The state machine *)

DataRows(grid) == Len(grid) - 1

CatalogRows == DataRows(sheets[FILMS_LIST_SHEET]) + DataRows(sheets[TALKS_SHEET])

NoCall == [fn |-> "none"]

Page(menu, status, out) == [menu |-> menu, status |-> status, out |-> out]

NoPage == Page("", "", <<>>)

EmptyBook ==
    (FILMS_LIST_SHEET :> <<FilmsHeader>>) @@ (TALKS_SHEET :> <<TalksHeader>>)
    @@ (PROGRAMME_SELECTION_SHEET :> <<SelectionHeader>>)

Init ==
    /\ sheets = EmptyBook
    /\ cache = [n \in SheetNames |-> NotCached]
    /\ page = NoPage
    /\ call = NoCall

\* the process is started again: st.cache_data starts empty
Restart ==
    /\ cache' = [n \in SheetNames |-> NotCached]
    /\ page' = NoPage
    /\ call' = NoCall
    /\ UNCHANGED sheets

\* a caller invokes add_programme_entry(data), the sheet service answering
\* in one of the given ways
AddProgrammeEntry(inputs, answers) ==
    \E data \in inputs, io \in answers :
        LET r == add_programme_entry(data, sheets, io)
        IN  /\ CatalogRows < MaxRows
            /\ sheets' = r.sheets
            /\ call' = [fn |-> "add_programme_entry", data |-> data, io |-> io,
                        raised |-> r.raised, value |-> r.value]
            /\ page' = NoPage
            /\ UNCHANGED cache

\* a run of the script with the View Programmes menu
ViewProgrammes ==
    LET c == Prologue(cache, sheets)
    IN  /\ cache' = c
        /\ page' = Page("View Programmes",
                        IF DfEmpty(c[FILMS_LIST_SHEET].df) THEN "KeyError" ELSE "ok",
                        <<>>)
        /\ UNCHANGED <<sheets, call>>

\* no request was posted to the image host
NoResponse == [status_code |-> 0, success |-> FALSE, url |-> ""]

\* a run of the script with the Add Programme menu and Add Entry clicked;
\* the page keeps what was submitted, whether the poster was posted to the
\* image host and what the host answered
AddProgrammeView(forms, answers) ==
    \E category \in DOMAIN CATEGORY_CODES, film \in forms, talk \in TalkForms,
       typed \in BOOLEAN, uploaded_image \in BOOLEAN, response \in Responses,
       io \in answers :
        LET is_talk == category = "Talks & Conversations"
            upload == handle_response(response)
            blank == [f \in {"title", "topic"} |-> ""]
            data == IF is_talk
                    THEN TalkData(category, IF typed THEN talk ELSE blank @@ talk,
                                  upload.value)
                    ELSE FilmData(category, IF typed THEN film ELSE blank @@ film,
                                  upload.value)
            invalid == IF is_talk /\ ~typed THEN "Please enter the TOPIC."
                       ELSE IF ~is_talk /\ ~typed
                            THEN "Please enter the INTERNATIONAL TITLE."
                       ELSE IF ~uploaded_image THEN "Please upload an image."
                       ELSE ""
            submitted(posted, programme_id) ==
                [category |-> category, typed |-> typed,
                 uploaded_image |-> uploaded_image, posted |-> posted,
                 response |-> IF posted THEN response ELSE NoResponse,
                 programme_id |-> programme_id]
        IN  /\ CatalogRows < MaxRows
            /\ cache' = Prologue(cache, sheets)
            /\ UNCHANGED call
            /\ IF invalid # ""
               THEN /\ page' = Page("Add Programme", invalid, submitted(FALSE, ""))
                    /\ UNCHANGED sheets
               ELSE IF upload.raised
               THEN /\ page' = Page("Add Programme", "Image upload failed.",
                                    submitted(TRUE, ""))
                    /\ UNCHANGED sheets
               ELSE LET r == add_programme_entry(data, sheets, io)
                    IN  /\ page' = Page("Add Programme",
                                        IF r.raised THEN "Failed to save the entry."
                                        ELSE "added",
                                        submitted(TRUE,
                                            IF r.raised THEN "" ELSE r.value))
                        /\ sheets' = r.sheets

\* a run of the script with the Select Films menu, with or without a click
\* on Save Entry
SelectFilmsView(forms) ==
    \E save_entry_button \in BOOLEAN, form \in forms :
        LET c == load_data_with_cache(Prologue(cache, sheets), sheets,
                                      PROGRAMME_SELECTION_SHEET)
            films_df == c[FILMS_LIST_SHEET].df
            selection_df == c[PROGRAMME_SELECTION_SHEET].df
        IN  /\ cache' = c
            /\ UNCHANGED call
            /\ IF DfEmpty(films_df)
               THEN /\ page' = Page("Select Films", "KeyError", <<>>)
                    /\ UNCHANGED sheets
               ELSE \E i \in {k \in Picks(films_df) : IsChoice(films_df, k)} :
                    LET programme_id == films_df.rows[i]["PROGRAMME_ID"]
                        entry == new_entry(programme_id, form.scores,
                                           form.is_selected)
                    IN  IF save_entry_button
                        THEN /\ DataRows(sheets[PROGRAMME_SELECTION_SHEET])
                                    < ClearLastRow + MaxOverflow
                             /\ sheets' = replace_sheet_data(sheets,
                                    PROGRAMME_SELECTION_SHEET,
                                    Upsert(selection_df, entry))
                             /\ page' = Page("Select Films", "saved", entry)
                        ELSE /\ page' = Page("Select Films", "shown",
                                             <<programme_id>>)
                             /\ UNCHANGED sheets

\* a run of the script with the Scoring Overview menu
ScoringOverviewView(filters) ==
    \E selected_categories \in filters :
        LET c == load_data_with_cache(Prologue(cache, sheets), sheets,
                                      PROGRAMME_SELECTION_SHEET)
            films_df == c[FILMS_LIST_SHEET].df
            selection_df == c[PROGRAMME_SELECTION_SHEET].df
        IN  /\ cache' = c
            /\ UNCHANGED <<sheets, call>>
            /\ page' = IF DfEmpty(films_df) \/ DfEmpty(selection_df)
                       THEN Page("Scoring Overview", "KeyError", <<>>)
                       ELSE Page("Scoring Overview", "ok",
                                 merged_df(films_df, selection_df, selected_categories))

Next ==
    \/ Restart
    \/ AddProgrammeEntry(ApiData, {IoOk})
    \/ ViewProgrammes
    \/ AddProgrammeView(OneFilmForm, {IoOk})
    \/ SelectFilmsView(TwoScoreForms)
    \/ ScoringOverviewView({DOMAIN CATEGORY_CODES})

Spec == Init /\ [][Next]_vars

----------------------------------------------------------------------------
(* The catalog alone: entries are added and shown *)

NextCatalog ==
    \/ Restart
    \/ AddProgrammeEntry(ApiData, {IoOk})
    \/ ViewProgrammes
    \/ AddProgrammeView(FilmForms, {IoOk})

SpecCatalog == Init /\ [][NextCatalog]_vars

----------------------------------------------------------------------------
(* Every operation of the app over a catalog of one film category and talks *)

AppendData ==
    {FilmData("Feature Film", f, PosterUrl) : f \in OneFilmForm}
    \cup {TalkData("Talks & Conversations", f, PosterUrl) : f \in TalkForms}

NextAppend ==
    \/ Restart
    \/ AddProgrammeEntry(AppendData, {IoOk})
    \/ ViewProgrammes
    \/ AddProgrammeView(OneFilmForm, {IoOk})
    \/ SelectFilmsView(TwoScoreForms)
    \/ ScoringOverviewView({DOMAIN CATEGORY_CODES})

SpecAppend == Init /\ [][NextAppend]_vars

----------------------------------------------------------------------------
(* Adding entries when requests fail and data is incomplete *)

\* a film and a talk with every key, and the dicts that lack one
FaultData == AppendData \cup IncompleteData

NextFault ==
    \/ AddProgrammeEntry(FaultData, IoOutcomes)
    \/ AddProgrammeView(OneFilmForm, IoOutcomes)

SpecFault == Init /\ [][NextFault]_vars

----------------------------------------------------------------------------
(* The score views over a catalog of two films *)

FilmBook(book, category, form) ==
    add_programme_entry(FilmData(category, form, PosterUrl), book, IoOk).sheets

\* a World Cinema film, then a Feature Film
ScoreBooks ==
    {FilmBook(FilmBook(EmptyBook, "World Cinema", f1), "Feature Film", f2) :
        f1 \in FilmForms, f2 \in FilmForms}

InitScore ==
    /\ sheets \in ScoreBooks
    /\ cache = [n \in SheetNames |-> NotCached]
    /\ page = NoPage
    /\ call = NoCall

NextScore ==
    \/ Restart
    \/ SelectFilmsView(ScoreForms)
    \/ ScoringOverviewView(CategoryFilters)

SpecScore == InitScore /\ [][NextScore]_vars

----------------------------------------------------------------------------
(* The registry's functions, called on drawn arguments *)

SlCategories == {"Feature Film", "World Cinema", "Homage"}

\* the workbooks whose Films sheet holds up to n rows, in every order of
\* the categories
RECURSIVE BooksOf(_)
BooksOf(n) ==
    IF n = 0 THEN {EmptyBook}
    ELSE LET prev == BooksOf(n - 1)
         IN  prev \cup {FilmBook(b, c, f) :
                            b \in prev, c \in SlCategories, f \in OneFilmForm}

SlNoCalls ==
    {[fn |-> "generate_sl_no", category |-> c, done |-> FALSE, value |-> 0] :
        c \in SlCategories \cup {"Jury Films"}}

ProgrammeIdCalls ==
    {[fn |-> "generate_programme_id", category |-> c, sl_no |-> n,
      done |-> FALSE, value |-> ""] :
        c \in DOMAIN CATEGORY_CODES \cup UnknownCategories,
        n \in (1..MaxSlNo) \cup {99, 100, 999, 1000}}

\* every tuple of five scores the selectboxes can yield
AllScoreForms ==
    {ScoreForm(s, b) : s \in [1..5 -> ScoreRange], b \in BOOLEAN}

SaveCalls == {[fn |-> "save", form |-> f] : f \in AllScoreForms}

InitFn ==
    /\ cache = [n \in SheetNames |-> NotCached]
    /\ page = NoPage
    /\ \/ call \in SlNoCalls /\ sheets \in BooksOf(MaxSlRows)
       \/ call \in ProgrammeIdCalls /\ sheets = EmptyBook
       \/ /\ call \in SaveCalls
          /\ sheets = FilmBook(EmptyBook, "Feature Film",
                               CHOOSE f \in OneFilmForm : TRUE)

CallGenerateSlNo ==
    /\ call.fn = "generate_sl_no" /\ ~call.done
    /\ call' = [call EXCEPT !.done = TRUE,
                  !.value = generate_sl_no(sheets[FILMS_LIST_SHEET], call.category)]
    /\ UNCHANGED <<sheets, cache, page>>

CallGenerateProgrammeId ==
    /\ call.fn = "generate_programme_id" /\ ~call.done
    /\ call' = [call EXCEPT !.done = TRUE,
                  !.value = generate_programme_id(call.category, call.sl_no)]
    /\ UNCHANGED <<sheets, cache, page>>

\* the editor's first run of the Select Films view, with the drawn scores
SaveDrawnScores ==
    /\ call.fn = "save" /\ page = NoPage
    /\ SelectFilmsView({call.form})

NextFn ==
    \/ CallGenerateSlNo
    \/ CallGenerateProgrammeId
    \/ SaveDrawnScores

SpecFn == InitFn /\ [][NextFn]_vars

----------------------------------------------------------------------------
(* Two callers of add_programme_entry at once: each reads the sheet and *)
(* computes its serial number and id, and appends its row in a later step *)

Callers == {"A", "B"}

ConcurrentData ==
    {FilmData(c, f, PosterUrl) : c \in {"Feature Film", "World Cinema"},
                                f \in OneFilmForm}
    \cup {TalkData("Talks & Conversations", f, PosterUrl) : f \in TalkForms}

SheetOf(data) ==
    IF data["category"].str = "Talks & Conversations"
    THEN TALKS_SHEET ELSE FILMS_LIST_SHEET

\* the row add_programme_entry builds from data, sl_no and programme_id
programme_row(data, sl_no, programme_id) ==
    LET keys == IF data["category"].str = "Talks & Conversations"
                THEN TalkKeys ELSE FilmKeys
    IN  <<data["category"], PyInt(sl_no), PyStr(programme_id)>>
        \o [i \in 1..Len(keys) |-> data[keys[i]]]

InitConcurrent ==
    /\ sheets \in BooksOf(1)
    /\ cache = [n \in SheetNames |-> NotCached]
    /\ page = NoPage
    /\ \E d \in [Callers -> ConcurrentData] :
        call = [fn |-> "concurrent_add", log |-> <<>>,
                callers |-> [p \in Callers |->
                    [pc |-> "start", data |-> d[p], sl_no |-> 0,
                     programme_id |-> ""]]]

\* caller p reads the sheet: get_sheet, generate_sl_no, generate_programme_id
ReadSheet(p) ==
    LET c == call.callers[p]
        category == c.data["category"].str
        sl_no == generate_sl_no(sheets[SheetOf(c.data)], category)
    IN  /\ call.fn = "concurrent_add" /\ c.pc = "start"
        /\ call' = [call EXCEPT
                !.log = Append(@, <<p, "read">>),
                !.callers[p] = [c EXCEPT !.pc = "read", !.sl_no = sl_no,
                    !.programme_id = generate_programme_id(category, sl_no)]]
        /\ UNCHANGED <<sheets, cache, page>>

\* caller p appends its row: sheet.append_row(row), and returns its id
AppendRow(p) ==
    LET c == call.callers[p]
    IN  /\ call.fn = "concurrent_add" /\ c.pc = "read"
        /\ sheets' = [sheets EXCEPT ![SheetOf(c.data)] =
                append_row(@, programme_row(c.data, c.sl_no, c.programme_id))]
        /\ call' = [call EXCEPT !.log = Append(@, <<p, "append">>),
                                !.callers[p].pc = "done"]
        /\ UNCHANGED <<cache, page>>

NextConcurrent == \E p \in Callers : ReadSheet(p) \/ AppendRow(p)

SpecConcurrent == InitConcurrent /\ [][NextConcurrent]_vars

----------------------------------------------------------------------------
(* Two editors saving scores at once: each reads the score sheet, and *)
(* later clears it and appends its own rows *)

Editors == {"A", "B"}

\* a World Cinema film and a Feature Film
TwoFilmBook ==
    FilmBook(FilmBook(EmptyBook, "World Cinema", CHOOSE f \in OneFilmForm : TRUE),
             "Feature Film", CHOOSE f \in OneFilmForm : TRUE)

TwoFilmIds == {"W001", "F001"}

\* the book with no score record, or with one record of one of the films
EditorBooks ==
    {TwoFilmBook} \cup
    {replace_sheet_data(TwoFilmBook, PROGRAMME_SELECTION_SHEET,
        Upsert(EmptyDataFrame, new_entry(PyStr(id), <<1, 1, 1, 1, 1>>, FALSE))) :
        id \in TwoFilmIds}

InitEditors ==
    /\ sheets \in EditorBooks
    /\ cache = [n \in SheetNames |-> NotCached]
    /\ page = NoPage
    /\ \E id \in [Editors -> TwoFilmIds], form \in [Editors -> TwoScoreForms] :
        call = [fn |-> "concurrent_save", log |-> <<>>,
                editors |-> [e \in Editors |->
                    [pc |-> "start", programme_id |-> id[e], form |-> form[e],
                     selection_df |-> EmptyDataFrame, status |-> ""]]]

\* editor e's run reads the score sheet: selection_df
ReadSnapshot(e) ==
    /\ call.fn = "concurrent_save" /\ call.editors[e].pc = "start"
    /\ call' = [call EXCEPT
            !.log = Append(@, <<e, "read">>),
            !.editors[e].pc = "read",
            !.editors[e].selection_df =
                DataFrameOf(sheets[PROGRAMME_SELECTION_SHEET])]
    /\ UNCHANGED <<sheets, cache, page>>

\* the entry editor e saves
EntryOf(ed) == new_entry(PyStr(ed.programme_id), ed.form.scores, ed.form.is_selected)

\* editor e's replace_sheet_data clears the sheet
ClearSheet(e) ==
    /\ call.fn = "concurrent_save" /\ call.editors[e].pc = "read"
    /\ sheets' = [sheets EXCEPT ![PROGRAMME_SELECTION_SHEET] = batch_clear(@)]
    /\ call' = [call EXCEPT !.log = Append(@, <<e, "clear">>),
                            !.editors[e].pc = "cleared"]
    /\ UNCHANGED <<cache, page>>

\* editor e's replace_sheet_data appends the rows of its upserted frame
AppendScoreRows(e) ==
    LET ed == call.editors[e]
        df == Upsert(ed.selection_df, EntryOf(ed))
    IN  /\ call.fn = "concurrent_save" /\ ed.pc = "cleared"
        /\ sheets' = [sheets EXCEPT ![PROGRAMME_SELECTION_SHEET] =
                IF DfEmpty(df) THEN @ ELSE append_rows(@, DfStrValues(df))]
        /\ call' = [call EXCEPT !.log = Append(@, <<e, "append">>),
                                !.editors[e].pc = "done",
                                !.editors[e].status = "saved"]
        /\ UNCHANGED <<cache, page>>

NextEditors ==
    \E e \in Editors : ReadSnapshot(e) \/ ClearSheet(e) \/ AppendScoreRows(e)

SpecEditors == InitEditors /\ [][NextEditors]_vars

----------------------------------------------------------------------------
(* A festival of a thousand films, every one of them scored *)

LargeForm(i) == [title |-> "Film " \o Str(i), year |-> 2020, run_time |-> 120]

\* the Films sheet after n Feature Films were added one by one
LargeFilms(n) ==
    <<FilmsHeader>> \o
    [i \in 1..n |->
        LET data == FilmData("Feature Film", LargeForm(i), PosterUrl)
            row == <<PyStr("Feature Film"), PyInt(i),
                     PyStr(generate_programme_id("Feature Film", i))>>
                   \o [k \in 1..Len(FilmKeys) |-> data[FilmKeys[k]]]
        IN  [k \in 1..Len(row) |-> RawCell(row[k])]]

\* the score sheet after the first n of them were scored in turn
LargeScores(n) ==
    <<SelectionHeader>> \o
    [i \in 1..n |->
        LET entry == new_entry(PyStr(generate_programme_id("Feature Film", i)),
                               <<3, 4, 0, 0, 0>>, FALSE)
        IN  [k \in 1..Len(SelectionHeader) |->
                UserEntered(PyToStr(entry[SelectionHeader[k]]))]]

LargeBook(n) ==
    (FILMS_LIST_SHEET :> LargeFilms(ClearLastRow)) @@ (TALKS_SHEET :> <<TalksHeader>>)
    @@ (PROGRAMME_SELECTION_SHEET :> LargeScores(n))

\* the row sets a caller hands to replace_sheet_data
ReplaceInputs ==
    {EmptyDataFrame,
     [columns |-> SelectionHeader,
      rows |-> <<new_entry(PyStr("F001"), <<0, 0, 0, 0, 5>>, TRUE)>>],
     [columns |-> SelectionHeader,
      rows |-> <<new_entry(PyStr("F002"), <<3, 4, 0, 0, 0>>, FALSE),
                 new_entry(PyStr("F001"), <<0, 0, 0, 0, 5>>, TRUE)>>]}

\* a caller invokes replace_sheet_data(PROGRAMME_SELECTION_SHEET, df)
ReplaceSheetData(inputs) ==
    \E df \in inputs :
        /\ DataRows(sheets[PROGRAMME_SELECTION_SHEET]) < ClearLastRow + MaxOverflow
        /\ sheets' = replace_sheet_data(sheets, PROGRAMME_SELECTION_SHEET, df)
        /\ call' = [fn |-> "replace_sheet_data", df |-> df,
                    before |-> DataRows(sheets[PROGRAMME_SELECTION_SHEET])]
        /\ page' = NoPage
        /\ UNCHANGED cache

InitLarge ==
    /\ sheets = LargeBook(ClearLastRow)
    /\ cache = [n \in SheetNames |-> NotCached]
    /\ page = NoPage
    /\ call = NoCall

NextLarge ==
    \/ Restart
    \/ SelectFilmsView(ScoreForms)
    \/ ReplaceSheetData(ReplaceInputs)

SpecLarge == InitLarge /\ [][NextLarge]_vars

----------------------------------------------------------------------------
(* Reading the sheets *)

\* the text of column name in sheet row r
CellOf(grid, r, name) == grid[r][ColumnOf(grid[1], name)]

\* the sheet rows that hold a record
RecordRows(grid) == {r \in 2..Len(grid) : ~IsBlankRow(grid[r])}

\* the sheet rows that hold a record of programme id
RowsOfId(grid, id) ==
    {r \in RecordRows(grid) : CellOf(grid, r, "PROGRAMME_ID") = id}

UniqueIds(grid) ==
    Cardinality({CellOf(grid, r, "PROGRAMME_ID") : r \in RecordRows(grid)})
        = Cardinality(RecordRows(grid))

\* the cells the sheet shows for a row of values written as strings
ShownRow(columns, values) ==
    [k \in 1..Len(columns) |-> UserEntered(PyToStr(values[columns[k]]))]

CatalogSheets == {FILMS_LIST_SHEET, TALKS_SHEET}

CatalogEntries ==
    UNION {{<<n, r>> : r \in 2..Len(sheets[n])} : n \in CatalogSheets}

ScoreSheet == sheets[PROGRAMME_SELECTION_SHEET]

ScoreColumns ==
    <<"SYNOPSIS", "TRAILER", "DIRECTOR_PROFILE", "WRITER_PROFILE",
      "LETTERBOXD_REVIEWS">>

\* the step is a save of the Select Films view
Saved == page'.status = "saved"

OverviewShown == page.menu = "Scoring Overview" /\ page.status = "ok"

----------------------------------------------------------------------------
(* The catalog *)

\* C1: after any sequence of successful add_programme_entry calls from empty
\* sheets, for any category strings, no two entries of the catalog (Films
\* plus Talks) have the same PROGRAMME_ID.
C1_UniqueProgrammeIds ==
    \A e1 \in CatalogEntries, e2 \in CatalogEntries :
        e1 # e2 =>
            CellOf(sheets[e1[1]], e1[2], "PROGRAMME_ID")
                # CellOf(sheets[e2[1]], e2[2], "PROGRAMME_ID")

\* C2: the entries of each category carry the serial numbers 1, 2, ..., n
\* in order of creation: every row's SL_NO is the number of rows of its
\* category up to and including it.
C2_SerialNumbers ==
    \A n \in CatalogSheets :
        \A r \in 2..Len(sheets[n]) :
            LET sl_no == CellOf(sheets[n], r, "SL_NO")
                same == {q \in 2..r :
                            CellOf(sheets[n], q, "CATEGORY")
                                = CellOf(sheets[n], r, "CATEGORY")}
            IN  AllDigits(sl_no) /\ ParseInt(sl_no) = Cardinality(same)

\* a second entry of a category was added, and got the serial number 2
C2_Witness ==
    /\ call.fn = "add_programme_entry" /\ ~call.raised
    /\ \E n \in CatalogSheets :
        /\ Len(sheets[n]) = 3
        /\ CellOf(sheets[n], 2, "CATEGORY") = CellOf(sheets[n], 3, "CATEGORY")
        /\ CellOf(sheets[n], 3, "SL_NO") = "2"

\* the step is a call of add_programme_entry made by a caller
CallsAddProgrammeEntry == call'.fn = "add_programme_entry" /\ page'.menu = ""

\* the keys add_programme_entry reads from data
RequiredKeys(data) ==
    {"category"} \cup
    (IF "category" \in DOMAIN data
        /\ data["category"].str = "Talks & Conversations"
     THEN {TalkKeys[i] : i \in 1..Len(TalkKeys)}
     ELSE {FilmKeys[i] : i \in 1..Len(FilmKeys)})

\* C11: every failure inside add_programme_entry is surfaced and leaves the
\* store unchanged: if the read of the sheet fails, a required field is
\* absent from data or the append fails, the call raises, returns no
\* programme id, and the Films and Talks sheets are as before.
C11_FailuresSurfaced ==
    [][CallsAddProgrammeEntry =>
        LET failed == \/ RequiredKeys(call'.data) \ DOMAIN call'.data # {}
                      \/ ~call'.io.read_ok
                      \/ ~call'.io.append_ok
        IN  /\ failed => (call'.raised /\ sheets' = sheets)
            /\ call'.raised <=> failed
            /\ call'.raised =>
                    call'.value \notin
                        {CellOf(sheets'[e[1]], e[2], "PROGRAMME_ID") :
                            e \in UNION {{<<n, r>> : r \in 2..Len(sheets'[n])} :
                                            n \in CatalogSheets}}]_vars

\* the append of a complete talk failed on a catalog that holds a film
C11_Witness ==
    /\ call.fn = "add_programme_entry" /\ call.raised
    /\ call.io.read_ok /\ ~call.io.append_ok
    /\ RequiredKeys(call.data) \subseteq DOMAIN call.data
    /\ Len(sheets[FILMS_LIST_SHEET]) = 2 /\ Len(sheets[TALKS_SHEET]) = 1

\* the step added an entry: by a caller's call, or by the Add Programme view
AddedEntry ==
    \/ call'.fn = "add_programme_entry" /\ ~call'.raised /\ page'.menu = ""
    \/ page'.menu = "Add Programme" /\ page'.status = "added"

\* C12: programme entries are append-only: whatever is done (entries added,
\* scores saved, views rendered), every row of the Films and Talks sheets
\* stays, unchanged and in place; the only change to the two sheets is one
\* row appended at the end of one of them by a successful add.
C12_AppendOnly ==
    [][\A n \in CatalogSheets :
        \/ sheets'[n] = sheets[n]
        \/ /\ Len(sheets'[n]) = Len(sheets[n]) + 1
           /\ SubSeq(sheets'[n], 1, Len(sheets[n])) = sheets[n]
           /\ AddedEntry
           /\ \A o \in CatalogSheets \ {n} : sheets'[o] = sheets[o]]_vars

\* a score was saved over a catalog of two films, both still in place
C12_Witness ==
    /\ page.status = "saved"
    /\ Len(sheets[FILMS_LIST_SHEET]) = 3
    /\ RecordRows(ScoreSheet) # {}
    /\ CellOf(sheets[FILMS_LIST_SHEET], 2, "SL_NO") = "1"

\* C13: serial numbers are not safe under concurrent callers: when two
\* add_programme_entry calls for one category both read the sheet before
\* either appends, both compute the same serial number and the same
\* programme id and both rows are appended, so the sheet holds two entries
\* with one programme id.
C13_InterleavedCallsShareId ==
    (/\ call.fn = "concurrent_add"
     /\ \A p \in Callers : call.callers[p].pc = "done"
     /\ call.callers["A"].data["category"] = call.callers["B"].data["category"]
     /\ call.log[1][2] = "read" /\ call.log[2][2] = "read")
        => LET a == call.callers["A"]
               b == call.callers["B"]
               grid == sheets[SheetOf(a.data)]
           IN  /\ a.sl_no = b.sl_no
               /\ a.programme_id = b.programme_id
               /\ Cardinality(RowsOfId(grid, a.programme_id)) = 2
               /\ {Len(grid) - 1, Len(grid)} \subseteq RowsOfId(grid, a.programme_id)
               /\ ~UniqueIds(grid)

\* two calls for Feature Film interleaved on a sheet that held one Feature
\* Film: both rows carry F002
C13_Witness ==
    /\ call.fn = "concurrent_add"
    /\ call.log = <<<<"A", "read">>, <<"B", "read">>, <<"B", "append">>,
                    <<"A", "append">>>>
    /\ Len(sheets[FILMS_LIST_SHEET]) = 4
    /\ CellOf(sheets[FILMS_LIST_SHEET], 2, "PROGRAMME_ID") = "F001"
    /\ CellOf(sheets[FILMS_LIST_SHEET], 3, "PROGRAMME_ID") = "F002"
    /\ CellOf(sheets[FILMS_LIST_SHEET], 4, "PROGRAMME_ID") = "F002"

\* the place of editor e's step in the log
At(e, step) == CHOOSE i \in 1..Len(call.log) : call.log[i] = <<e, step>>

SubmittedSheet(out) ==
    IF out.category = "Talks & Conversations" THEN TALKS_SHEET ELSE FILMS_LIST_SHEET

\* the image host answered with a URL: HTTP status 200 and the success flag
ReturnedUrl(response) == response.status_code = 200 /\ response.success

\* C15: in the Add Programme view the steps happen in the order validate,
\* upload poster, append row: the poster is posted to the image host only
\* when the title/topic is typed and an image is provided; a row is
\* appended only after the upload of that submission returned a URL (status
\* 200 and the success flag), and that URL is the row's IMAGE_URL; with an
\* empty title/topic or no image neither an upload nor an append happens;
\* when the upload fails no append happens.
C15_ValidateUploadAppend ==
    [][page'.menu = "Add Programme" =>
        LET out == page'.out
            n == SubmittedSheet(out)
        IN  /\ out.posted <=> (out.typed /\ out.uploaded_image)
            /\ (~out.typed \/ ~out.uploaded_image) => sheets' = sheets
            /\ (out.posted /\ ~ReturnedUrl(out.response)) => sheets' = sheets
            /\ sheets' # sheets =>
                /\ out.posted /\ ReturnedUrl(out.response)
                /\ page'.status = "added"
                /\ Len(sheets'[n]) = Len(sheets[n]) + 1
                /\ \A m \in SheetNames \ {n} : sheets'[m] = sheets[m]
                /\ CellOf(sheets'[n], Len(sheets'[n]), "IMAGE_URL") = out.response.url
                /\ CellOf(sheets'[n], Len(sheets'[n]), "PROGRAMME_ID")
                        = out.programme_id
            /\ page'.status = "added" => sheets' # sheets]_vars

\* a film was added by the view after its poster upload returned a URL
C15_Witness ==
    /\ page.menu = "Add Programme" /\ page.status = "added"
    /\ page.out.posted /\ ReturnedUrl(page.out.response)
    /\ page.out.category = "Feature Film"
    /\ Len(sheets[FILMS_LIST_SHEET]) >= 2
    /\ CellOf(sheets[FILMS_LIST_SHEET], Len(sheets[FILMS_LIST_SHEET]), "IMAGE_URL")
            = page.out.response.url
    /\ CellOf(sheets[FILMS_LIST_SHEET], Len(sheets[FILMS_LIST_SHEET]),
              "PROGRAMME_ID") = page.out.programme_id

----------------------------------------------------------------------------
(* The score records *)

\* C3: a save made on a score sheet with at most one record per
\* PROGRAMME_ID leaves at most one record per PROGRAMME_ID, and exactly one
\* record for the programme saved, holding the values of this save.
C3_OneRecordPerProgramme ==
    [][(UniqueIds(ScoreSheet) /\ Saved) =>
        LET after == sheets'[PROGRAMME_SELECTION_SHEET]
            id == page'.out["PROGRAMME_ID"].str
        IN  /\ UniqueIds(after)
            /\ Cardinality(RowsOfId(after, id)) = 1
            /\ \A r \in RowsOfId(after, id) :
                    after[r] = ShownRow(SelectionHeader, page'.out)]_vars

\* C4: a save for programme P is an upsert: afterwards the score sheet
\* holds every record it held for another programme, unchanged, plus
\* exactly the new record for P.
C4_SaveIsUpsert ==
    [][Saved =>
        LET after == sheets'[PROGRAMME_SELECTION_SHEET]
            id == page'.out["PROGRAMME_ID"].str
            others == {ScoreSheet[r] :
                        r \in RecordRows(ScoreSheet) \ RowsOfId(ScoreSheet, id)}
        IN  /\ {after[r] : r \in RecordRows(after)}
                    = others \cup {ShownRow(SelectionHeader, page'.out)}
            /\ Cardinality(RowsOfId(after, id)) = 1]_vars

\* C5: after replace_sheet_data(sheet_name, df) the sheet holds the
\* unchanged header and exactly the given rows in the given order, nothing
\* left over from before; with an empty row set, the header alone.
C5_ReplaceLeavesGivenRows ==
    [][(call'.fn = "replace_sheet_data" /\ page'.menu = "") =>
        sheets'[PROGRAMME_SELECTION_SHEET]
            = <<ScoreSheet[1]>> \o
              [r \in 1..Len(call'.df.rows) |->
                  ShownRow(call'.df.columns, call'.df.rows[r])]]_vars

\* C6: the average of five criteria in 0..5 is 0 when all are 0 and else
\* the mean of the criteria above 0 ([0,0,0,0,5] -> 5.0, [3,4,0,0,0] ->
\* 3.5); the AVERAGE_SCORE of every saved record is that value for the
\* record's five stored criteria.
C6_AverageOfNonZero ==
    /\ \A r \in RecordRows(ScoreSheet) :
        LET criteria == [i \in 1..Len(ScoreColumns) |->
                            ParseInt(CellOf(ScoreSheet, r, ScoreColumns[i]))]
            nonzero == {i \in 1..Len(criteria) : criteria[i] > 0}
            average == Num60(Numericise(CellOf(ScoreSheet, r, "AVERAGE_SCORE")))
        IN  /\ nonzero = {} => average = 0
            /\ nonzero # {} =>
                    average * Cardinality(nonzero) = 60 * SumSeq(criteria)
            /\ criteria = <<0, 0, 0, 0, 5>> => average = 5 * 60
            /\ criteria = <<3, 4, 0, 0, 0>> => average = 210
    /\ page.status = "saved" =>
        LET scores == call.form.scores
            nonzero == {i \in 1..Len(scores) : scores[i] > 0}
            average == Num60(page.out["AVERAGE_SCORE"])
        IN  /\ \A i \in 1..Len(ScoreColumns) :
                    page.out[ScoreColumns[i]] = PyInt(scores[i])
            /\ nonzero = {} => average = 0
            /\ nonzero # {} =>
                    average * Cardinality(nonzero) = 60 * SumSeq(scores)
            /\ RowsOfId(ScoreSheet, page.out["PROGRAMME_ID"].str) # {}

\* a record with two criteria above 0 and three at 0 was saved: 3.5
C6_Witness ==
    /\ page.status = "saved"
    /\ call.form.scores = <<3, 4, 0, 0, 0>>
    /\ \E r \in RecordRows(ScoreSheet) :
        /\ CellOf(ScoreSheet, r, "TRAILER") = "4"
        /\ CellOf(ScoreSheet, r, "WRITER_PROFILE") = "0"
        /\ CellOf(ScoreSheet, r, "AVERAGE_SCORE") = "3.5"

----------------------------------------------------------------------------
(* The registry's functions *)

GeneratesProgrammeId ==
    call.fn = "generate_programme_id" /\ ~call.done /\ call'.done

GeneratesSlNo == call.fn = "generate_sl_no" /\ ~call.done /\ call'.done

\* C7: generate_programme_id(category, sl_no) returns the category's code
\* ("X" for a category outside the table) followed by the serial number in
\* decimal, padded with zeros to at least 3 digits ("Feature Film", 7 ->
\* "F007"; unknown, 1 -> "X001"), and changes no state.
C7_ProgrammeIdFormat ==
    [][GeneratesProgrammeId =>
        LET code == IF call.category \in DOMAIN CATEGORY_CODES
                    THEN CATEGORY_CODES[call.category] ELSE "X"
            id == call'.value
            serial == SubSeq(id, Len(code) + 1, Len(id))
        IN  /\ SubSeq(id, 1, Len(code)) = code
            /\ AllDigits(serial) /\ ParseInt(serial) = call.sl_no
            /\ Len(serial) >= 3
            /\ Len(serial) > 3 => CharAt(serial, 1) # "0"
            /\ (call.category = "Feature Film" /\ call.sl_no = 7) => id = "F007"
            /\ (call.category \notin DOMAIN CATEGORY_CODES /\ call.sl_no = 1)
                    => id = "X001"
            /\ UNCHANGED <<sheets, cache, page>>]_vars

\* the id of serial number 1 of a category outside the table was generated
C7_Witness ==
    /\ call.fn = "generate_programme_id" /\ call.done
    /\ call.category = "Jury Films" /\ call.sl_no = 1
    /\ call.value = "X001"

\* C8: generate_sl_no over a sheet with N rows of the target category and M
\* rows of other categories, in any order, returns N + 1 and leaves the
\* sheet unchanged.
C8_SerialNumberIsCountPlusOne ==
    [][GeneratesSlNo =>
        LET grid == sheets[FILMS_LIST_SHEET]
            same == {r \in 2..Len(grid) :
                        CellOf(grid, r, "CATEGORY") = call.category}
        IN  call'.value = Cardinality(same) + 1 /\ sheets' = sheets]_vars

\* the serial number 2 was returned for a category with one row, lying
\* between two rows of other categories
C8_Witness ==
    /\ call.fn = "generate_sl_no" /\ call.done /\ call.value = 2
    /\ Len(sheets[FILMS_LIST_SHEET]) = 4
    /\ CellOf(sheets[FILMS_LIST_SHEET], 2, "CATEGORY") # call.category
    /\ CellOf(sheets[FILMS_LIST_SHEET], 3, "CATEGORY") = call.category
    /\ CellOf(sheets[FILMS_LIST_SHEET], 4, "CATEGORY") # call.category

----------------------------------------------------------------------------
(* The ranking of the overview *)

\* the keys of a row of the overview, a film without a score record read
\* as unselected, with average 0
IsSelectedOf(row) == PyToStr(row["IS_SELECTED"]) \in {"TRUE", "True", "true"}

AverageOf(row) ==
    IF IsNaN(row["AVERAGE_SCORE"]) THEN 0 ELSE Num60(row["AVERAGE_SCORE"])

\* a ranks before b by year descending, running time ascending, id ascending
LaterKeysBefore(a, b) ==
    IF Num60(a["YEAR"]) # Num60(b["YEAR"])
    THEN Num60(a["YEAR"]) > Num60(b["YEAR"])
    ELSE IF Num60(a["RUNNING_TIME"]) # Num60(b["RUNNING_TIME"])
    THEN Num60(a["RUNNING_TIME"]) < Num60(b["RUNNING_TIME"])
    ELSE StrLess(a["PROGRAMME_ID"].str, b["PROGRAMME_ID"].str)

\* a ranks before b by the whole key
RanksBefore(a, b) ==
    IF IsSelectedOf(a) # IsSelectedOf(b) THEN IsSelectedOf(a)
    ELSE IF AverageOf(a) # AverageOf(b) THEN AverageOf(a) > AverageOf(b)
    ELSE LaterKeysBefore(a, b)

\* C9: the overview lists any two entries in the order of the key
\* (isSelected descending, averageScore descending, year descending,
\* runningTime ascending, programmeId ascending): the entry that wins on
\* the first key where they differ comes first.
C9_RankOrdering ==
    OverviewShown =>
        \A i \in 1..Len(page.out), j \in 1..Len(page.out) :
            i < j => RanksBefore(page.out[i], page.out[j])

\* C10: a film without a score record and an unselected film whose record
\* has average 0 are listed in the order of the remaining keys (year
\* descending, running time ascending, id ascending).
C10_UnscoredRanksAsZero ==
    OverviewShown =>
        \A i \in 1..Len(page.out), j \in 1..Len(page.out) :
            (/\ IsNaN(page.out[i]["AVERAGE_SCORE"])
             /\ ~IsNaN(page.out[j]["AVERAGE_SCORE"])
             /\ ~IsSelectedOf(page.out[j])
             /\ AverageOf(page.out[j]) = 0)
                => (i < j <=> LaterKeysBefore(page.out[i], page.out[j]))

====
